---- MODULE Spec2Model ----
(***************************************************************************)
(* A model of ref_prev_params.py: the preprocessor that lets a default     *)
(* parameter value name an earlier parameter of the same list.             *)
(*                                                                         *)
(* Text is modelled as a sequence of one-character strings, so that        *)
(* strip, replace, split, find and join are computed as Python computes    *)
(* them and not assumed.                                                   *)
(***************************************************************************)
EXTENDS Integers, Sequences, FiniteSets, TLC

(***************************************************************************)
(* Bounds of the explored inputs.                                          *)
(***************************************************************************)
MaxParams == 3
MaxLines == 3

(***************************************************************************)
(* Program constants.                                                      *)
(***************************************************************************)
TAB_CHARS == 4

NL == "\n"
Whitespace == {" ", "\t", "\n", "\r"}
Digits == {"0", "1", "2", "3", "4", "5", "6", "7", "8", "9"}

DEF_KW == <<"d", "e", "f", " ">>
EQ_NONE == <<"=", "N", "o", "n", "e">>
NONE_TOK == <<"N", "o", "n", "e">>
\* The Python object None (a dict value, or "no result"); no text equals it.
None == <<"<None object>">>

(***************************************************************************)
(* Python's str operations, on sequences of characters.                    *)
(***************************************************************************)
StartsWith(s, p) == Len(s) >= Len(p) /\ SubSeq(s, 1, Len(p)) = p

EndsWith(s, p) == Len(s) >= Len(p) /\ SubSeq(s, Len(s) - Len(p) + 1, Len(s)) = p

RECURSIVE LStrip(_)
LStrip(s) == IF s # <<>> /\ s[1] \in Whitespace THEN LStrip(Tail(s)) ELSE s

RECURSIVE RStrip(_)
RStrip(s) ==
    IF s # <<>> /\ s[Len(s)] \in Whitespace THEN RStrip(SubSeq(s, 1, Len(s) - 1)) ELSE s

\* str.strip()
Strip(s) == RStrip(LStrip(s))

\* str.replace(c, '') for a single character c
RemoveChar(s, c) == SelectSeq(s, LAMBDA ch : ch # c)

\* str.find(c) for a single character: the 0-based index of the first c, or -1
Find(s, c) ==
    IF \E k \in 1..Len(s) : s[k] = c
    THEN (CHOOSE k \in 1..Len(s) : s[k] = c /\ \A j \in 1..(k - 1) : s[j] # c) - 1
    ELSE -1

\* c in s
Contains(s, c) == Find(s, c) # -1

\* s[k:] for a 0-based k >= 0
SliceFrom(s, k) == SubSeq(s, k + 1, Len(s))

\* s[:-n]
DropLast(s, n) == IF Len(s) <= n THEN <<>> ELSE SubSeq(s, 1, Len(s) - n)

\* str.split(c) for a single-character separator
RECURSIVE Split(_, _)
Split(s, c) ==
    IF Find(s, c) = -1 THEN <<s>>
    ELSE <<SubSeq(s, 1, Find(s, c))>> \o Split(SliceFrom(s, Find(s, c) + 1), c)

\* sep.join(parts)
RECURSIVE Join(_, _)
Join(parts, sep) ==
    IF parts = <<>> THEN <<>>
    ELSE IF Len(parts) = 1 THEN parts[1]
    ELSE parts[1] \o sep \o Join(Tail(parts), sep)

\* str.replace(old, new): every non-overlapping occurrence, left to right
RECURSIVE Replace(_, _, _)
Replace(s, old, new) ==
    IF Len(s) < Len(old) THEN s
    ELSE IF SubSeq(s, 1, Len(old)) = old
         THEN new \o Replace(SubSeq(s, Len(old) + 1, Len(s)), old, new)
         ELSE <<s[1]>> \o Replace(Tail(s), old, new)

\* ' ' * n
Spaces(n) == [k \in 1..n |-> " "]

(***************************************************************************)
(* The dict param_to_prev_param: a sequence of <<key, value>> pairs in     *)
(* insertion order; assigning an existing key keeps its place.             *)
(***************************************************************************)
DictHas(d, key) == \E k \in 1..Len(d) : d[k][1] = key

DictSet(d, key, val) ==
    IF DictHas(d, key)
    THEN [k \in 1..Len(d) |-> IF d[k][1] = key THEN <<key, val>> ELSE d[k]]
    ELSE Append(d, <<key, val>>)

(***************************************************************************)
(* _build_param_to_prev_param                                              *)
(***************************************************************************)
NoExc == [type |-> "none", name |-> <<>>, line |-> <<>>, msg |-> <<>>]

NotImplementedError ==
    [type |-> "NotImplementedError", name |-> <<>>, line |-> <<>>, msg |-> <<>>]

ValueError == [type |-> "ValueError", name |-> <<>>, line |-> <<>>, msg |-> <<>>]

IndexError == [type |-> "IndexError", name |-> <<>>, line |-> <<>>, msg |-> <<>>]

\* "Name {} is not defined: {}".format(name, line)
NameError(name, line) ==
    [type |-> "NameError", name |-> name, line |-> line,
     msg |-> <<"N", "a", "m", "e", " ">> \o name
             \o <<" ", "i", "s", " ", "n", "o", "t", " ",
                  "d", "e", "f", "i", "n", "e", "d", ":", " ">> \o line]

\* def_str.strip().replace(' ', '')
Normalize(definition_string) == RemoveChar(Strip(definition_string), " ")

\* The parameter strings: everything after the first '(', less the last two
\* characters, split on ','.
ParamStrings(def_str) == Split(DropLast(SliceFrom(def_str, Find(def_str, "(") + 1), 2), ",")

IsConstantNoPeriod(v) == v \in Digits \/ v = "'" \/ v = "\""

\* v.isdigit() or v == '.' or v == "'" or v == '"'
IsConstant(v) == v \in Digits \/ v = "." \/ v = "'" \/ v = "\""

\* The loop over params, from the k-th on, with the dict d built so far.
RECURSIVE ScanParams(_, _, _, _)
ScanParams(params, k, d, definition_string) ==
    IF k > Len(params) THEN [exc |-> NoExc, dict |-> d]
    ELSE LET param == params[k] IN
         IF Contains(param, "=")
         THEN LET parts == Split(param, "=") IN
              IF Len(parts) # 2 THEN [exc |-> ValueError, dict |-> d]
              ELSE IF parts[2] = <<>> THEN [exc |-> IndexError, dict |-> d]
              ELSE IF IsConstant(parts[2][1])
                   THEN ScanParams(params, k + 1, DictSet(d, parts[1], None),
                                   definition_string)
              ELSE IF DictHas(d, parts[2])
                   THEN ScanParams(params, k + 1, DictSet(d, parts[1], parts[2]),
                                   definition_string)
              ELSE [exc |-> NameError(parts[1], definition_string), dict |-> d]
         ELSE ScanParams(params, k + 1, DictSet(d, param, None), definition_string)

FilterNothing(d) == d

\* {k: v for k, v in param_to_prev_param.items() if v is not None}
FilterReferences(d) == SelectSeq(d, LAMBDA kv : kv[2] # None)

\* [exc, dict]: the exception raised (NoExc when it returns) and the dict returned.
BuildParamToPrevParam(definition_string) ==
    LET def_str == Normalize(definition_string) IN
    IF ~EndsWith(def_str, <<":">>) THEN [exc |-> NotImplementedError, dict |-> <<>>]
    ELSE LET r == ScanParams(ParamStrings(def_str), 1, <<>>, definition_string) IN
         IF r.exc # NoExc THEN [exc |-> r.exc, dict |-> <<>>]
         ELSE [exc |-> NoExc, dict |-> FilterReferences(r.dict)]

(***************************************************************************)
(* preprocess: the steps of its loop body                                  *)
(***************************************************************************)
IsDefinitionLineNoSpace(stripped) == StartsWith(stripped, <<"d", "e", "f">>)

\* stripped.startswith('def ')
IsDefinitionLine(stripped) == StartsWith(stripped, DEF_KW)

\* ' ' * (len(line) - len(stripped) + TAB_CHARS)
Indent(line, stripped) == Spaces(Len(line) - Len(stripped) + TAB_CHARS)

\* line = line.replace('={}'.format(right), '=None'), for each item in turn
RECURSIVE RewriteLine(_, _, _)
RewriteLine(line, items, k) ==
    IF k > Len(items) THEN line
    ELSE RewriteLine(Replace(line, <<"=">> \o items[k][2], EQ_NONE), items, k + 1)

\* '{0}{1} = {1} or {2}'.format(indent, left, right)
Assigner(indent, left, right) ==
    indent \o left \o <<" ", "=", " ">> \o left \o <<" ", "o", "r", " ">> \o right

AssignersReversed(indent, items) ==
    [k \in 1..Len(items) |->
        Assigner(indent, items[Len(items) + 1 - k][1], items[Len(items) + 1 - k][2])]

Assigners(indent, items) ==
    [k \in 1..Len(items) |-> Assigner(indent, items[k][1], items[k][2])]

EmitLineOnly(processed, line, assigners) == Append(processed, line)

\* processed_lines.append(line); processed_lines.extend(assigners)
Emit(processed, line, assigners) == Append(processed, line) \o assigners

\* '\n'.join(processed_lines)
JoinLines(processed) == Join(processed, <<NL>>)

(***************************************************************************)
(* The rewritten program, run: Python binds a call's arguments to the      *)
(* emitted header's parameters and executes the emitted assignment lines.  *)
(* A value is written as its literal; ArgOf(p) is the argument a caller    *)
(* passes for a parameter p that has no default.                           *)
(***************************************************************************)
Falsy == {<<"0">>, <<"'", "'">>, <<"F", "a", "l", "s", "e">>, NONE_TOK}

ArgValues == {<<"0">>, <<"7">>, NONE_TOK}

ArgOf(name) == <<"#">> \o name

\* x or y
PyOr(x, y) == IF x \in Falsy THEN y ELSE x

\* A default Python can evaluate where the def statement runs.
IsLiteral(tok) == tok # <<>> /\ (tok = NONE_TOK \/ IsConstant(tok[1]))

\* The parameters of an emitted header: [name, has, dflt].
HeaderParams(hdr) ==
    LET ps == ParamStrings(Normalize(hdr)) IN
    [k \in 1..Len(ps) |->
        IF Contains(ps[k], "=")
        THEN [name |-> Split(ps[k], "=")[1], has |-> TRUE,
              dflt |-> SliceFrom(ps[k], Find(ps[k], "=") + 1)]
        ELSE [name |-> ps[k], has |-> FALSE, dflt |-> <<>>]]

\* A line "x = x or y", as its tokens.
IsAssignerLine(line) ==
    LET t == Split(Strip(line), " ") IN
    Len(t) = 5 /\ t[2] = <<"=">> /\ t[4] = <<"o", "r">> /\ t[1] = t[3]

\* The emitted lines from the k-th on are executed while they are assignments.
RECURSIVE RunAssigners(_, _, _)
RunAssigners(out, k, env) ==
    IF k > Len(out) \/ ~IsAssignerLine(out[k]) THEN env
    ELSE LET t == Split(Strip(out[k]), " ") IN
         IF t[1] \in DOMAIN env /\ t[5] \in DOMAIN env
         THEN RunAssigners(out, k + 1, [env EXCEPT ![t[1]] = PyOr(env[t[1]], env[t[5]])])
         ELSE env

\* The locals on entry to the body, before any emitted assignment ran.
Bind(params, supplied, value) ==
    [n \in {params[k].name : k \in 1..Len(params)} |->
        LET p == CHOOSE q \in {params[k] : k \in 1..Len(params)} : q.name = n IN
        IF n = supplied THEN value
        ELSE IF p.has THEN p.dflt
        ELSE ArgOf(n)]

NoCall == [line |-> 0, supplied |-> <<>>, value |-> <<>>, env |-> <<>>]

(***************************************************************************)
(* The programs explored.  A line is described by its parts and rendered   *)
(* to text; preprocess sees the text only.                                 *)
(***************************************************************************)
A == <<"a">>
AB == <<"a", "b">>
C == <<"c">>
D == <<"d">>
Z == <<"z">>
ONE == <<"1">>

\* The k-th parameter of every explored header has the k-th name.
ParamNames == <<A, AB, C, D>>

NoDefault == [has |-> FALSE, dflt |-> <<>>]

Default(tok) == [has |-> TRUE, dflt |-> tok]

ConstantDefaults == {ONE, <<".", "5">>, <<"'", "s", "'">>, <<"\"", "s", "\"">>}

DefaultChoices ==
    {NoDefault} \cup {Default(t) : t \in ConstantDefaults}
    \cup {Default(A), Default(AB), Default(C), Default(Z), Default(NONE_TOK),
          Default(<<>>), Default(<<"1", "=", "=", "1">>)}

ParamLists == UNION {[1..n -> DefaultChoices] : n \in 0..MaxParams}

Plain(text) == [kind |-> "plain", text |-> text]

Header(lead, defaults, close, trail) ==
    [kind |-> "def", lead |-> lead, params |-> defaults, close |-> close, trail |-> trail]

FullPool == {Header(<<>>, ps, <<")", ":">>, <<>>) : ps \in ParamLists}

ContextPool ==
    { Plain(<<"x", " ", "=", " ", "5">>),
      Plain(<<>>),
      Plain(<<" ", " ", "d", "e", "f", "x">>),
      Header(<<" ", " ">>, <<NoDefault, Default(A), Default(A)>>, <<")", ":">>, <<>>),
      Header(<<>>, <<NoDefault, Default(A)>>, <<")", " ", ":">>, <<" ", " ">>),
      Header(<<"\t">>, <<NoDefault, Default(ONE), Default(A)>>, <<")", ":">>, <<>>),
      Header(<<>>, <<NoDefault, Default(Z)>>, <<")", ":">>, <<>>),
      Header(<<>>, <<NoDefault, Default(ONE)>>, <<")">>, <<>>) }

Programs ==
    {<<d>> : d \in FullPool} \cup UNION {[1..n -> ContextPool] : n \in 1..MaxLines}

RenderParam(k, p) == IF p.has THEN (ParamNames[k] \o <<"=">>) \o p.dflt ELSE ParamNames[k]

RenderLine(d) ==
    IF d.kind = "plain" THEN d.text
    ELSE d.lead \o DEF_KW \o <<"f", "(">>
         \o Join([k \in 1..Len(d.params) |-> RenderParam(k, d.params[k])], <<",", " ">>)
         \o d.close \o d.trail

RenderProgram(p) == Join([i \in 1..Len(p) |-> RenderLine(p[i])], <<NL>>)

(***************************************************************************)
(* State                                                                   *)
(***************************************************************************)
VARIABLES
    prog,                 \* the description of the input (never read by preprocess)
    code,                 \* preprocess's argument
    lines,                \* code.split('\n')
    idx,                  \* the position of the for loop in lines
    processed_lines,
    param_to_prev_param,  \* the dict of the last definition line analysed
    pc,                   \* "loop", "done", "raised", "called"
    result,               \* the text preprocess returned, or None
    exc,                  \* the exception that left preprocess, or NoExc
    call                  \* a call of a rewritten function, once the program ran

vars == <<prog, code, lines, idx, processed_lines, param_to_prev_param, pc, result,
          exc, call>>

Init ==
    /\ prog \in Programs
    /\ code = RenderProgram(prog)
    /\ lines = Split(code, NL)
    /\ idx = 1
    /\ processed_lines = <<>>
    /\ param_to_prev_param = <<>>
    /\ pc = "loop"
    /\ result = None
    /\ exc = NoExc
    /\ call = NoCall

\* A line that is no definition is appended as it is.
PassLine ==
    /\ pc = "loop"
    /\ idx <= Len(lines)
    /\ ~IsDefinitionLine(Strip(lines[idx]))
    /\ processed_lines' = Emit(processed_lines, lines[idx], <<>>)
    /\ idx' = idx + 1
    /\ UNCHANGED <<prog, code, lines, param_to_prev_param, pc, result, exc, call>>

\* A definition line the analyser accepts: rewritten, then its assigners.
RewriteDefinition ==
    /\ pc = "loop"
    /\ idx <= Len(lines)
    /\ LET line == lines[idx]
           stripped == Strip(line)
           built == BuildParamToPrevParam(stripped)
       IN /\ IsDefinitionLine(stripped)
          /\ built.exc = NoExc
          /\ param_to_prev_param' = built.dict
          /\ processed_lines' =
                 Emit(processed_lines, RewriteLine(line, built.dict, 1),
                      Assigners(Indent(line, stripped), built.dict))
    /\ idx' = idx + 1
    /\ UNCHANGED <<prog, code, lines, pc, result, exc, call>>

\* A definition line the analyser rejects: its exception leaves preprocess.
PropagateError ==
    /\ pc = "loop"
    /\ idx <= Len(lines)
    /\ LET stripped == Strip(lines[idx])
           built == BuildParamToPrevParam(stripped)
       IN /\ IsDefinitionLine(stripped)
          /\ built.exc # NoExc
          /\ exc' = built.exc
    /\ pc' = "raised"
    /\ UNCHANGED <<prog, code, lines, idx, processed_lines, param_to_prev_param,
                   result, call>>

Return ==
    /\ pc = "loop"
    /\ idx > Len(lines)
    /\ result' = JoinLines(processed_lines)
    /\ pc' = "done"
    /\ UNCHANGED <<prog, code, lines, idx, processed_lines, param_to_prev_param,
                   exc, call>>

\* The returned program is run and calls a function it defines, leaving at most
\* one parameter that has a default to the caller's choice.
Call ==
    /\ pc = "done"
    /\ \E k \in 1..Len(processed_lines) :
         LET hdr == processed_lines[k]
             params == HeaderParams(hdr)
         IN /\ IsDefinitionLine(Strip(hdr))
            /\ \A j \in 1..Len(params) :
                 /\ params[j].name # <<>>
                 /\ params[j].has => IsLiteral(params[j].dflt)
            /\ \E j \in 0..Len(params), v \in ArgValues :
                 /\ IF j = 0 THEN v = NONE_TOK ELSE params[j].has
                 /\ LET supplied == IF j = 0 THEN <<>> ELSE params[j].name IN
                    call' = [line |-> k, supplied |-> supplied, value |-> v,
                             env |-> RunAssigners(processed_lines, k + 1,
                                                  Bind(params, supplied, v))]
    /\ pc' = "called"
    /\ UNCHANGED <<prog, code, lines, idx, processed_lines, param_to_prev_param,
                   result, exc>>

Next ==
    \/ PassLine
    \/ RewriteDefinition
    \/ PropagateError
    \/ Return
    \/ Call

Spec == Init /\ [][Next]_vars

(***************************************************************************)
(* What the description of the input says about it.                        *)
(***************************************************************************)
IsHeader(d) == d.kind = "def"

\* The k-th parameter defaults to the name of an earlier parameter.
IsForward(d, k) ==
    d.params[k].has /\ \E j \in 1..(k - 1) : d.params[k].dflt = ParamNames[j]

\* The k-th parameter has no default, or a constant one.
IsPlainOrConstant(d, k) ==
    d.params[k].has => (d.params[k].dflt # <<>> /\ d.params[k].dflt \in ConstantDefaults)

\* The forward-referencing parameters, left to right.
ForwardParams(d) ==
    IF IsHeader(d)
    THEN SelectSeq([k \in 1..Len(d.params) |-> k], LAMBDA k : IsForward(d, k))
    ELSE <<>>

NForward(d) == Len(ForwardParams(d))

\* The header ends in ':' once stripped.
EndsWithColon(d) == IsHeader(d) /\ d.close[Len(d.close)] = ":"

\* Where the i-th input line belongs in the output: after one line per earlier
\* input line and one more per forward-referencing parameter of these.
RECURSIVE OutPos(_)
OutPos(i) == IF i = 1 THEN 1 ELSE OutPos(i - 1) + 1 + NForward(prog[i - 1])

RECURSIVE TotalForward(_)
TotalForward(i) == IF i = 0 THEN 0 ELSE TotalForward(i - 1) + NForward(prog[i])

\* The header with the default of each forward-referencing parameter set to None.
SentinelHeader(d) ==
    [d EXCEPT !.params =
        [k \in 1..Len(d.params) |->
            IF IsForward(d, k) THEN Default(NONE_TOK) ELSE d.params[k]]]

\* "p = p or q" for the k-th parameter p and its default q.
AssignmentText(d, k) ==
    ParamNames[k] \o <<" ", "=", " ">> \o ParamNames[k] \o <<" ", "o", "r", " ">>
    \o d.params[k].dflt

\* The input lines preprocess has passed.
Passed == {i \in 1..Len(prog) : i < idx}

\* preprocess failed on the i-th input line.
FailedAt(i) == pc = "raised" /\ idx = i

(***************************************************************************)
(* C1: the header emitted for a definition with forward-referencing         *)
(* parameters is the input line with the default of each of them replaced   *)
(* by None and every other character unchanged.  The code replaces the text *)
(* '=q' wherever it occurs, also at the start of a longer default.          *)
(***************************************************************************)
C1_HeaderRewritten ==
    \A i \in Passed :
        (IsHeader(prog[i]) /\ NForward(prog[i]) >= 1)
            => processed_lines[OutPos(i)] = RenderLine(SentinelHeader(prog[i]))

C3_ExactMap ==
    \A i \in 1..Len(prog) :
        (/\ IsHeader(prog[i])
         /\ prog[i].close = <<")", ":">>
         /\ prog[i].trail = <<>>)
            => /\ (idx = i + 1 /\ pc = "loop")
                    => /\ {param_to_prev_param[n] : n \in 1..Len(param_to_prev_param)}
                            = {<<ParamNames[k], prog[i].params[k].dflt>> :
                                  k \in {m \in 1..Len(prog[i].params) : IsForward(prog[i], m)}}
                       /\ Len(param_to_prev_param) = NForward(prog[i])
               /\ (\A k \in 1..Len(prog[i].params) :
                      IsPlainOrConstant(prog[i], k) \/ IsForward(prog[i], k))
                    => ~FailedAt(i)

C3_Witness ==
    /\ pc = "loop"
    /\ idx = 2
    /\ IsHeader(prog[1])
    /\ prog[1].close = <<")", ":">>
    /\ Len(prog[1].params) = 3
    /\ prog[1].params[2] = Default(ONE)
    /\ prog[1].params[3] = Default(A)
    /\ param_to_prev_param = <<(<<C, A>>)>>

(***************************************************************************)
(* C4: a default that is neither a constant nor an earlier parameter makes  *)
(* the analyser raise NameError, with a message that names the undefined    *)
(* identifier and carries the definition line, and nothing is returned.     *)
(* The code formats the parameter's name into the message instead.          *)
(***************************************************************************)
UndefinedDefault(d) ==
    LET bad == {k \in 1..Len(d.params) :
                   /\ d.params[k].has
                   /\ ~IsPlainOrConstant(d, k)
                   /\ ~IsForward(d, k)}
        first == CHOOSE k \in bad : \A m \in bad : k <= m
    IN d.params[first].dflt

C4_NameErrorNamesIdentifier ==
    (pc = "raised" /\ exc.type = "NameError")
        => /\ exc.name = UndefinedDefault(prog[idx])
           /\ exc.line = Strip(lines[idx])
           /\ result = None

(***************************************************************************)
(* C5: preprocess fails only with NotImplementedError, on a definition line *)
(* that does not end in ':' once trimmed and rid of spaces, or with         *)
(* NameError, and a failure leaves no output.  The code also lets a         *)
(* ValueError and an IndexError out.                                        *)
(***************************************************************************)
C5_TwoErrorKinds ==
    pc = "raised"
        => /\ \/ /\ exc.type = "NotImplementedError"
                 /\ ~EndsWith(Normalize(lines[idx]), <<":">>)
              \/ exc.type = "NameError"
           /\ IsDefinitionLine(Strip(lines[idx]))
           /\ result = None

(***************************************************************************)
(* C6: in a call of a rewritten function, a parameter b that defaults to an *)
(* earlier parameter a holds the argument supplied for it, whatever its     *)
(* value, and holds a's value when none was supplied.  The code's           *)
(* "b = b or a" gives b the value of a for every falsy argument.            *)
(***************************************************************************)
C6_SuppliedArgumentWins ==
    pc = "called"
        => \A i \in 1..Len(prog) :
              (OutPos(i) = call.line /\ IsHeader(prog[i]))
                  => \A n \in 1..NForward(prog[i]) :
                        LET k == ForwardParams(prog[i])[n]
                            b == ParamNames[k]
                            a == prog[i].params[k].dflt
                        IN IF call.supplied = b
                           THEN call.env[b] = call.value
                           ELSE call.env[b] = call.env[a]

(***************************************************************************)
(* C7: the output has as many lines as the input plus one per               *)
(* forward-referencing parameter of all the definition headers.             *)
(***************************************************************************)
C7_LineCount ==
    pc \in {"done", "called"}
        => Len(Split(result, NL)) = Len(Split(code, NL)) + TotalForward(Len(prog))

C7_Witness ==
    /\ pc = "done"
    /\ Len(prog) >= 2
    /\ TotalForward(Len(prog)) >= 3
    /\ \E i \in 1..Len(prog) :
          /\ IsHeader(prog[i])
          /\ \E k \in 1..Len(prog[i].params) :
                prog[i].params[k].has /\ prog[i].params[k].dflt \in ConstantDefaults
    /\ Len(Split(result, NL)) = Len(prog) + TotalForward(Len(prog))

(***************************************************************************)
(* C8: every input line whose stripped form does not start with 'def ' is   *)
(* in the output unchanged, in the input's order, and a program without     *)
(* any definition header is returned as it is.                              *)
(***************************************************************************)
C8_OtherLinesUnchanged ==
    /\ \A i \in 1..Len(lines) :
          ~StartsWith(Strip(lines[i]), DEF_KW)
              => /\ ~FailedAt(i)
                 /\ i \in Passed
                      => /\ OutPos(i) <= Len(processed_lines)
                         /\ processed_lines[OutPos(i)] = lines[i]
    /\ (/\ pc \in {"done", "called"}
        /\ \A i \in 1..Len(lines) : ~StartsWith(Strip(lines[i]), DEF_KW))
          => result = code

C8_Witness ==
    /\ pc = "done"
    /\ Len(prog) = 3
    /\ IsHeader(prog[2]) /\ NForward(prog[2]) >= 1
    /\ prog[1].kind = "plain" /\ prog[1].text # <<>>
    /\ prog[3].kind = "plain" /\ prog[3].text # <<>> /\ prog[3] # prog[1]
    /\ processed_lines[1] = lines[1]
    /\ processed_lines[Len(processed_lines)] = lines[3]

(***************************************************************************)
(* C9: every injected line starts with exactly as many spaces as the        *)
(* header has leading whitespace characters, plus TAB_CHARS.  The code      *)
(* counts the header's trailing whitespace too.                             *)
(***************************************************************************)
C9_IndentIsLeadPlusTab ==
    \A i \in Passed :
        IsHeader(prog[i])
            => \A n \in 1..NForward(prog[i]) :
                  LET injected == processed_lines[OutPos(i) + n] IN
                  /\ Len(injected) - Len(LStrip(injected)) = Len(prog[i].lead) + TAB_CHARS
                  /\ \A m \in 1..(Len(prog[i].lead) + TAB_CHARS) : injected[m] = " "

(***************************************************************************)
(* C10: the header comes first, then the assignments "p = p or q" of its    *)
(* forward-referencing parameters, one after the other in the parameters'   *)
(* left-to-right order, and only then the next input line.                  *)
(***************************************************************************)
C10_AssignersInOrder ==
    \A i \in Passed :
        (IsHeader(prog[i]) /\ NForward(prog[i]) >= 1)
            => LET fw == ForwardParams(prog[i])
                   at == OutPos(i)
               IN /\ at + Len(fw) <= Len(processed_lines)
                  /\ IsDefinitionLine(Strip(processed_lines[at]))
                  /\ \A n \in 1..Len(fw) :
                        Strip(processed_lines[at + n]) = AssignmentText(prog[i], fw[n])
                  /\ (i + 1) \in Passed
                        => IF IsHeader(prog[i + 1])
                           THEN IsDefinitionLine(Strip(processed_lines[at + Len(fw) + 1]))
                           ELSE processed_lines[at + Len(fw) + 1] = lines[i + 1]

C10_Witness ==
    /\ pc = "done"
    /\ Len(prog) >= 2
    /\ IsHeader(prog[1])
    /\ ForwardParams(prog[1]) = <<2, 3>>
    /\ prog[1].params[3] = Default(A)
    /\ prog[2].kind = "plain"
    /\ IsAssignerLine(processed_lines[2])
    /\ IsAssignerLine(processed_lines[3])
    /\ processed_lines[4] = lines[2]

====
